---- MODULE Spec2Model ----
(***************************************************************************)
(* Model of the gagiteck Python SDK: schema derivation for tools           *)
(* (gagiteck/tool.py), the local Agent and its conversation memory         *)
(* (gagiteck/agent.py) and the API client's construction and request       *)
(* error mapping (gagiteck/client.py, gagiteck/exceptions.py).             *)
(*                                                                         *)
(* Python strings that are concatenated or trimmed by the code are         *)
(* modelled as sequences of tokens, so that an f-string is a               *)
(* concatenation and str.strip() is a function that removes tokens.        *)
(* A Python dict whose keys may be absent is a TLA+ function whose         *)
(* DOMAIN holds exactly the keys present.                                  *)
(***************************************************************************)
EXTENDS Integers, Sequences, FiniteSets, TLC

VARIABLES
    (* ---- Agent (agent.py) ---- *)
    name,                  \* Agent.name
    memory_enabled,        \* Agent.memory_enabled
    system_prompt,         \* Agent.system_prompt (NoneStr when not configured)
    toolsArg,              \* the tools argument handed to the constructor
    tools,                 \* Agent.tools after __post_init__
    conversation_history,  \* Agent._conversation_history
    request,               \* the request dict built by the last run
    response,              \* the AgentResponse returned by the last run
    runLog,                \* <<message, returned content>> of each run since
                           \* construction or the last clear_memory
    nRuns,                 \* number of run calls so far
    cleared,               \* clear_memory has been called at least once
    (* ---- Tool (tool.py) ---- *)
    func,                  \* the callable under derivation
    tool,                  \* the Tool built from it (NoTool before)
    wire,                  \* result of the last Tool.to_dict
    outcome,               \* result of the last Tool.__call__
    (* ---- Client (client.py) ---- *)
    keyArg,                \* the api_key argument of the last Client(...)
    api_key,               \* Client.api_key
    http_client,           \* Client._http_client: "none", "open", "closed"
    transport,             \* what the transport did with the last request
    result,                \* what the last Client operation returned/raised
    netCalls               \* number of requests sent through the transport

agentVars == <<name, memory_enabled, system_prompt, toolsArg, tools,
               conversation_history, request, response, runLog, nRuns, cleared>>
toolVars == <<func, tool, wire, outcome>>
clientVars == <<keyArg, api_key, http_client, transport, result, netCalls>>
vars == <<agentVars, toolVars, clientVars>>

(***************************************************************************)
(* Bounds                                                                  *)
(***************************************************************************)
MaxRuns == 3        \* run calls per behaviour
MaxTools == 2       \* length of the tools list given to an Agent
MaxParams == 2      \* parameters of a callable
MaxKeyLen == 5      \* characters of an API key
MaxRequests == 2    \* requests per client

(***************************************************************************)
(* Python values                                                           *)
(***************************************************************************)
NoneStr == <<"None">>            \* None where a string is expected
NoFunction == [none |-> TRUE]    \* None where a callable is expected
NoTool == [none |-> TRUE]        \* no Tool object yet
Nothing == [none |-> TRUE]       \* no dict / response / outcome yet

Truthy(s) == s # NoneStr /\ s # <<>>     \* truth value of an Optional[str]

\* Sequences over S of length at most n.
RECURSIVE SeqsUpTo(_, _)
SeqsUpTo(S, n) ==
    IF n = 0 THEN {<<>>}
    ELSE LET shorter == SeqsUpTo(S, n - 1)
         IN shorter \cup {Append(s, x) : s \in {t \in shorter : Len(t) = n - 1}, x \in S}

(***************************************************************************)
(* exceptions.py                                                           *)
(***************************************************************************)
\* class -> base class
ExceptionBase ==
    [GagiteckError |-> "Exception", APIError |-> "GagiteckError",
     AuthenticationError |-> "GagiteckError", RateLimitError |-> "APIError",
     ValidationError |-> "GagiteckError", AgentError |-> "GagiteckError",
     ToolError |-> "GagiteckError", ValueError |-> "Exception",
     TypeError |-> "Exception", ZeroDivisionError |-> "Exception",
     Exception |-> "Exception"]

\* isinstance(e, kind) for a raised exception of class cls
RECURSIVE IsInstance(_, _)
IsInstance(cls, kind) ==
    \/ cls = kind
    \/ cls # "Exception" /\ IsInstance(ExceptionBase[cls], kind)

APIError(code, message) ==
    [raised |-> "APIError", code |-> code,
     message |-> <<"API Error ", ToString(code), ": ">> \o message]

AuthenticationError(message) ==
    [raised |-> "AuthenticationError", message |-> message]

RateLimitError(message, retry_after) ==
    [raised |-> "RateLimitError", code |-> 429, retry_after |-> retry_after,
     message |-> <<"API Error ", ToString(429), ": ">> \o message]

ToolError(tool_name, message) ==
    [raised |-> "ToolError", tool_name |-> tool_name,
     message |-> <<"Tool '", tool_name, "' failed: ">> \o message]

(***************************************************************************)
(* tool.py                                                                 *)
(*                                                                         *)
(* A callable is [name, doc, params]; params is the sequence of declared   *)
(* parameters [name, annotation, default] as inspect.signature lists them. *)
(* annotation "none" is a parameter without annotation; default "empty"    *)
(* is inspect.Parameter.empty.                                             *)
(***************************************************************************)
Whitespace == {" ", "\n"}

\* str.strip(): drop leading and trailing whitespace
RECURSIVE LStrip(_)
LStrip(s) == IF s # <<>> /\ Head(s) \in Whitespace THEN LStrip(Tail(s)) ELSE s

RECURSIVE RStrip(_)
RStrip(s) ==
    IF s # <<>> /\ s[Len(s)] \in Whitespace
    THEN RStrip(SubSeq(s, 1, Len(s) - 1)) ELSE s

Strip(s) == RStrip(LStrip(s))

\* type_map.get(python_type, "string")
type_map ==
    [str |-> "string", int |-> "integer", float |-> "number",
     bool |-> "boolean", list |-> "array", dict |-> "object"]

\* variant: an unknown annotation is passed on instead of defaulting to string
python_type_to_json_passthrough(python_type) ==
    IF python_type \in DOMAIN type_map THEN type_map[python_type] ELSE python_type

python_type_to_json(python_type) ==
    IF python_type \in DOMAIN type_map THEN type_map[python_type] ELSE "string"

\* get_type_hints(func): the annotated parameters and their types
get_type_hints(f) ==
    LET annotated == {i \in 1..Len(f.params) : f.params[i].annotation # "none"}
    IN [n \in {f.params[i].name : i \in annotated} |->
          (CHOOSE p \in {f.params[i] : i \in annotated} : p.name = n).annotation]

\* hints.get(param_name, str)
HintsGet(hints, param_name) ==
    IF param_name \in DOMAIN hints THEN hints[param_name] ELSE "str"

\* An insertion-ordered dict is a sequence of [key, value]; d[k] = v
DictSet(d, k, v) ==
    IF \E i \in 1..Len(d) : d[i].key = k
    THEN [i \in 1..Len(d) |-> IF d[i].key = k THEN [key |-> k, value |-> v] ELSE d[i]]
    ELSE Append(d, [key |-> k, value |-> v])

Keys(d) == [i \in 1..Len(d) |-> d[i].key]

\* The loop of from_function over sig.parameters.items(), from parameter i on
RECURSIVE DeriveLoop(_, _, _, _, _)
DeriveLoop(params, hints, i, properties, required) ==
    IF i > Len(params) THEN [properties |-> properties, required |-> required]
    ELSE LET param == params[i]
             json_type == python_type_to_json(HintsGet(hints, param.name))
         IN IF param.name = "self"
            THEN DeriveLoop(params, hints, i + 1, properties, required)
            ELSE DeriveLoop(params, hints, i + 1,
                     DictSet(properties, param.name,
                             [type |-> json_type,
                              description |-> <<"Parameter: ", param.name>>]),
                     IF param.default = "empty"
                     THEN Append(required, param.name) ELSE required)

\* Tool(name, description, parameters, function)
Tool(n, description, parameters, function) ==
    [name |-> n, description |-> description,
     parameters |-> parameters, function |-> function]

\* variant: the required key is always written, even when the list is empty
from_function_alwaysRequired(f) ==
    LET description == IF Truthy(f.doc) THEN f.doc ELSE <<"Execute ", f.name>>
        loop == DeriveLoop(f.params, get_type_hints(f), 1, <<>>, <<>>)
        base == [type |-> "object", properties |-> loop.properties]
    IN Tool(f.name, Strip(description), base @@ [required |-> loop.required], f)

from_function(f) ==
    LET description == IF Truthy(f.doc) THEN f.doc ELSE <<"Execute ", f.name>>
        loop == DeriveLoop(f.params, get_type_hints(f), 1, <<>>, <<>>)
        base == [type |-> "object", properties |-> loop.properties]
        parameters == IF loop.required # <<>>
                      THEN base @@ [required |-> loop.required] ELSE base
    IN Tool(f.name, Strip(description), parameters, f)

to_dict(t) ==
    [type |-> "function",
     function |-> [name |-> t.name, description |-> t.description,
                   parameters |-> t.parameters]]

\* function(**kwargs) binds when every keyword names a parameter and every
\* parameter without default is given
Binds(f, kwargs) ==
    /\ kwargs \subseteq {f.params[i].name : i \in 1..Len(f.params)}
    /\ \A i \in 1..Len(f.params) :
          f.params[i].default = "empty" => f.params[i].name \in kwargs

\* Tool.__call__(**kwargs); behaviour is what the bound function does when run
ToolCall(t, kwargs, behaviour) ==
    IF t.function = NoFunction
    THEN [raised |-> "ValueError",
          message |-> <<"Tool '", t.name, "' has no function defined">>]
    ELSE IF ~Binds(t.function, kwargs)
    THEN [raised |-> "TypeError", message |-> <<"unexpected or missing argument">>]
    ELSE IF "raises" \in DOMAIN behaviour
    THEN [raised |-> behaviour.raises, message |-> behaviour.message]
    ELSE [returned |-> behaviour.returns]

\* isinstance(t, Tool)
IsTool(t) == "parameters" \in DOMAIN t

(***************************************************************************)
(* agent.py                                                                *)
(***************************************************************************)
model == "claude-3-sonnet"
max_tokens == 4096
temperature == "0.7"

\* variant: entries that are already Tools are not carried over
post_init_dropsTools(ts) ==
    LET raw == SelectSeq(ts, LAMBDA t : ~IsTool(t))
    IN [i \in 1..Len(raw) |-> from_function(raw[i])]

\* Agent.__post_init__: every entry of a tools list is callable (a Tool has
\* __call__), so the test reduces to isinstance(t, Tool)
post_init(ts) ==
    [i \in 1..Len(ts) |-> IF ~IsTool(ts[i]) THEN from_function(ts[i]) ELSE ts[i]]

UserEntry(message) == [role |-> "user", content |-> message]
AssistantEntry(content) == [role |-> "assistant", content |-> content]

\* variant: the request always carries only the current message
RequestMessages_single(history, memory, message) == <<UserEntry(message)>>

\* request["messages"], given the history after the user entry was appended
RequestMessages(history, memory, message) ==
    IF memory THEN history ELSE <<UserEntry(message)>>

\* the request dict of Agent.run
BuildRequest(history, memory, message, prompt, ts) ==
    LET base == [model |-> model,
                 messages |-> RequestMessages(history, memory, message),
                 max_tokens |-> max_tokens,
                 temperature |-> temperature]
        withSystem == IF Truthy(prompt) THEN base @@ [system |-> prompt] ELSE base
    IN IF ts # <<>>
       THEN withSystem @@ [tools |-> [i \in 1..Len(ts) |-> to_dict(ts[i])]]
       ELSE withSystem

\* AgentResponse(content=..., model=..., tool_calls=[]), usage defaulting to None
AgentResponse(content, m, tool_calls) ==
    [content |-> content, model |-> m, tool_calls |-> tool_calls, usage |-> NoneStr]

\* f"[Agent '{self.name}' would process: {message}]"
Placeholder(agentName, message) ==
    <<"[Agent '", agentName, "' would process: ">> \o message \o <<"]">>

\* variant: the assistant's answer is never recorded
HistoryAfterResponse_noAssistant(history, memory, content) == history

\* the history Agent.run leaves behind once the response exists
HistoryAfterResponse(history, memory, content) ==
    IF memory THEN Append(history, AssistantEntry(content)) ELSE history

(***************************************************************************)
(* Inputs                                                                  *)
(***************************************************************************)
Names == {"helper", "bot"}
Messages == {<<"hi">>, <<"find ", "AI agents">>}
Prompts == {NoneStr, <<>>, <<"Be brief.">>}

Param(n, annotation, default) ==
    [name |-> n, annotation |-> annotation, default |-> default]

Callable(n, doc, params) == [name |-> n, doc |-> doc, params |-> params]

greet == Callable("greet", <<"\n", "Greets a person.", " ">>,
                  <<Param("name", "str", "empty")>>)
calc == Callable("calc", NoneStr,
                 <<Param("self", "none", "empty"), Param("a", "int", "value"),
                   Param("b", "none", "empty")>>)
SampleFuncs == {greet, calc}

\* a remote descriptor: Tool(name=..., description=...) with the field defaults
Descriptor == Tool("lookup", <<"Look something up">>, <<>>, NoFunction)

ToolEntries == SampleFuncs \cup {from_function(f) : f \in SampleFuncs} \cup {Descriptor}

AgentIdle ==
    /\ name = "" /\ memory_enabled = FALSE /\ system_prompt = NoneStr
    /\ toolsArg = <<>> /\ tools = <<>> /\ conversation_history = <<>>
    /\ request = Nothing /\ response = Nothing /\ runLog = <<>>
    /\ nRuns = 0 /\ cleared = FALSE

ToolIdle == func = NoFunction /\ tool = NoTool /\ wire = Nothing /\ outcome = Nothing

ClientIdle ==
    /\ keyArg = NoneStr /\ api_key = NoneStr /\ http_client = "none"
    /\ transport = Nothing /\ result = Nothing /\ netCalls = 0

(***************************************************************************)
(* Agent: construction, run, clear_memory                                  *)
(***************************************************************************)
\* Agent(name=..., system_prompt=..., tools=..., memory_enabled=...)
Init ==
    /\ name \in Names
    /\ memory_enabled \in BOOLEAN
    /\ system_prompt \in Prompts
    /\ toolsArg \in SeqsUpTo(ToolEntries, MaxTools)
    /\ tools = post_init(toolsArg)
    /\ conversation_history = <<>>
    /\ request = Nothing /\ response = Nothing
    /\ runLog = <<>> /\ nRuns = 0 /\ cleared = FALSE
    /\ ToolIdle /\ ClientIdle

Run(message) ==
    /\ nRuns < MaxRuns
    /\ LET history == Append(conversation_history, UserEntry(message))
           resp == AgentResponse(Placeholder(name, message), model, <<>>)
       IN /\ request' = BuildRequest(history, memory_enabled, message,
                                     system_prompt, tools)
          /\ conversation_history' =
                 HistoryAfterResponse(history, memory_enabled, resp.content)
          /\ response' = resp
          /\ runLog' = Append(runLog, [message |-> message, content |-> resp.content])
    /\ nRuns' = nRuns + 1
    /\ UNCHANGED <<name, memory_enabled, system_prompt, toolsArg, tools, cleared>>
    /\ UNCHANGED <<toolVars, clientVars>>

\* variant: the history survives the call
clear_memory_keeps ==
    /\ conversation_history' = conversation_history
    /\ runLog' = <<>>
    /\ cleared' = TRUE
    /\ UNCHANGED <<name, memory_enabled, system_prompt, toolsArg, tools,
                   request, response, nRuns>>
    /\ UNCHANGED <<toolVars, clientVars>>

clear_memory ==
    /\ conversation_history' = <<>>
    /\ runLog' = <<>>
    /\ cleared' = TRUE
    /\ UNCHANGED <<name, memory_enabled, system_prompt, toolsArg, tools,
                   request, response, nRuns>>
    /\ UNCHANGED <<toolVars, clientVars>>

Next ==
    \/ \E message \in Messages : Run(message)
    \/ clear_memory

Spec == Init /\ [][Next]_vars

(***************************************************************************)
(* Tool: derivation from a callable, serialization, invocation             *)
(***************************************************************************)
ParamNames == {"self", "a", "b"}
Annotations == {"none", "str", "int", "float", "bool", "list", "dict", "bytes"}
Defaults == {"empty", "value"}
Docs == {NoneStr, <<>>, <<" ", "Adds numbers.", "\n">>}

\* parameter lists of at most MaxParams parameters with distinct names
ParamLists ==
    {ps \in SeqsUpTo([name : ParamNames, annotation : Annotations,
                      default : Defaults], MaxParams) :
        \A i, j \in 1..Len(ps) : i # j => ps[i].name # ps[j].name}

Callables == {Callable("f", doc, ps) : doc \in Docs, ps \in ParamLists}

\* what a bound function does once its arguments are bound
Behaviours ==
    {[returns |-> "ok"],
     [raises |-> "ValueError", message |-> <<"bad value">>],
     [raises |-> "ZeroDivisionError", message |-> <<"division by zero">>]}

InitTool ==
    /\ func \in Callables
    /\ tool = NoTool /\ wire = Nothing /\ outcome = Nothing
    /\ AgentIdle /\ ClientIdle

\* Tool.from_function(func), also the @tool decorator
FromFunction ==
    /\ func # NoFunction
    /\ tool' = from_function(func)
    /\ UNCHANGED <<func, wire, outcome, agentVars, clientVars>>

ToDict ==
    /\ tool # NoTool
    /\ wire' = to_dict(tool)
    /\ UNCHANGED <<func, tool, outcome, agentVars, clientVars>>

NextTool ==
    \/ FromFunction
    \/ ToDict

SpecTool == InitTool /\ [][NextTool]_vars

(***************************************************************************)
(* Tool: invocation of a derived tool and of a descriptor without function *)
(***************************************************************************)
InitCall ==
    /\ func \in SampleFuncs \cup {NoFunction}
    /\ tool = NoTool /\ wire = Nothing /\ outcome = Nothing
    /\ AgentIdle /\ ClientIdle

\* Tool(name=..., description=...) built by hand without a function
NewDescriptor ==
    /\ func = NoFunction
    /\ tool' = Descriptor
    /\ UNCHANGED <<func, wire, outcome, agentVars, clientVars>>

\* tool(**kwargs) with the keyword names kwargs
Call(kwargs, behaviour) ==
    /\ tool # NoTool
    /\ outcome' = [kwargs |-> kwargs, behaviour |-> behaviour,
                   result |-> ToolCall(tool, kwargs, behaviour)]
    /\ UNCHANGED <<func, tool, wire, agentVars, clientVars>>

NextCall ==
    \/ FromFunction
    \/ NewDescriptor
    \/ \E kwargs \in SUBSET {"self", "name", "a", "b"}, behaviour \in Behaviours :
          Call(kwargs, behaviour)

SpecCall == InitCall /\ [][NextCall]_vars

(***************************************************************************)
(* client.py                                                               *)
(*                                                                         *)
(* An API key is None or a string, modelled as a sequence of characters.   *)
(***************************************************************************)
KeyAlphabet == {"g", "t", "_", "x"}
KeyPrefix == <<"g", "g", "t", "_">>
ApiKeys == {NoneStr} \cup SeqsUpTo(KeyAlphabet, MaxKeyLen)

\* str.startswith
StartsWith(s, prefix) ==
    /\ Len(s) >= Len(prefix)
    /\ SubSeq(s, 1, Len(prefix)) = prefix

\* variant: the prefix of the key is not examined
ClientInit_noPrefixCheck(key) ==
    IF ~Truthy(key)
    THEN [result |-> AuthenticationError(<<"API key is required">>),
          api_key |-> NoneStr, http_client |-> "none"]
    ELSE [result |-> [returned |-> "Client"],
          api_key |-> key, http_client |-> "open"]

\* Client.__init__(api_key): the exception raised, or the fields it sets
ClientInit(key) ==
    IF ~Truthy(key)
    THEN [result |-> AuthenticationError(<<"API key is required">>),
          api_key |-> NoneStr, http_client |-> "none"]
    ELSE IF ~StartsWith(key, KeyPrefix)
    THEN [result |-> AuthenticationError(
                        <<"Invalid API key format. Key should start with 'ggt_'">>),
          api_key |-> NoneStr, http_client |-> "none"]
    ELSE [result |-> [returned |-> "Client"],
          api_key |-> key, http_client |-> "open"]

Statuses == {200, 201, 400, 401, 404, 429, 500}

\* what the transport can do with a request: answer with a status, or fail
\* without any HTTP response (httpx.RequestError)
TransportOutcomes ==
    {[status |-> st, text |-> <<"body">>] : st \in Statuses}
        \cup {[error |-> "ConnectError", message |-> <<"connection refused">>]}

\* response.raise_for_status() raises httpx.HTTPStatusError
IsSuccess(status) == status \div 100 = 2

\* Client._request, given what the transport did
RequestResult(t) ==
    IF "error" \in DOMAIN t THEN APIError(0, t.message)
    ELSE IF IsSuccess(t.status) THEN [returned |-> t.text]
    ELSE IF t.status = 401
    THEN AuthenticationError(<<"Invalid or expired API key">>)
    ELSE APIError(t.status, t.text)

InitClient ==
    /\ ClientIdle /\ AgentIdle /\ ToolIdle

\* one Client(...) expression per behaviour
Construct(key) ==
    /\ http_client = "none" /\ result = Nothing
    /\ LET c == ClientInit(key)
       IN /\ keyArg' = key
          /\ api_key' = c.api_key
          /\ http_client' = c.http_client
          /\ result' = c.result
    /\ UNCHANGED <<transport, netCalls, agentVars, toolVars>>

\* Client._request through any of the resource wrappers; requests on a closed
\* client are left to httpx and are not part of these behaviours
Request(t) ==
    /\ http_client = "open"
    /\ netCalls < MaxRequests
    /\ transport' = t
    /\ result' = RequestResult(t)
    /\ netCalls' = netCalls + 1
    /\ UNCHANGED <<keyArg, api_key, http_client, agentVars, toolVars>>

Close ==
    /\ http_client \in {"open", "closed"}
    /\ http_client' = "closed"
    /\ UNCHANGED <<keyArg, api_key, transport, result, netCalls, agentVars, toolVars>>

NextClient ==
    \/ \E key \in ApiKeys : Construct(key)
    \/ \E t \in TransportOutcomes : Request(t)
    \/ Close

SpecClient == InitClient /\ [][NextClient]_vars

(***************************************************************************)
(* Properties                                                              *)
(***************************************************************************)
LastMessage == runLog[Len(runLog)].message

\* C1: with memory disabled the conversation history has length 0 in every
\* reachable state, whatever runs and clears have happened.
C1_HistoryEmptyWhenMemoryDisabled ==
    ~memory_enabled => Len(conversation_history) = 0

\* C2: with memory enabled and no clear_memory, after N runs the history has
\* exactly 2N entries: for the i-th run its user message, immediately followed
\* by the assistant entry holding the content that run returned.
C2_HistoryIsTwoPerRun ==
    (memory_enabled /\ ~cleared) =>
        /\ Len(runLog) = nRuns
        /\ Len(conversation_history) = 2 * nRuns
        /\ \A i \in 1..nRuns :
              /\ conversation_history[2 * i - 1] =
                     [role |-> "user", content |-> runLog[i].message]
              /\ conversation_history[2 * i] =
                     [role |-> "assistant", content |-> runLog[i].content]
        /\ nRuns > 0 => response.content = runLog[nRuns].content

C2_Witness ==
    /\ memory_enabled /\ ~cleared /\ nRuns = MaxRuns
    /\ Len(conversation_history) = 2 * MaxRuns
    /\ runLog[1].message # runLog[2].message

\* C3: with memory enabled, clear_memory leaves the history empty whatever
\* came before, and one run after it leaves exactly that run's user and
\* assistant entries (length 2, not 2N+2).
C3_ClearThenRun ==
    memory_enabled /\ cleared =>
        /\ Len(runLog) = 0 => conversation_history = <<>>
        /\ Len(runLog) = 1 =>
              conversation_history =
                  << [role |-> "user", content |-> runLog[1].message],
                     [role |-> "assistant", content |-> response.content] >>

C3_Witness ==
    /\ memory_enabled /\ cleared /\ nRuns >= 3 /\ Len(runLog) = 1
    /\ Len(conversation_history) = 2

\* C4: every run builds a request whose messages are the whole history up to
\* and including the current user message when memory is enabled, and just
\* the current user message when it is disabled.
C4_RequestMessages ==
    [][nRuns' = nRuns + 1 =>
          LET current == [role |-> "user", content |-> LastMessage']
          IN request'.messages =
                 IF memory_enabled
                 THEN Append(conversation_history, current)
                 ELSE <<current>>]_vars

C4_Witness ==
    /\ memory_enabled /\ nRuns >= 2 /\ request # Nothing
    /\ Len(request.messages) = 3
    /\ request.messages[2].role = "assistant"

\* the tools list a caller builds by applying Tool.from_function to every
\* bare callable before handing it to Agent(...)
PreWrapped(ts) ==
    [i \in 1..Len(ts) |-> IF IsTool(ts[i]) THEN ts[i] ELSE from_function(ts[i])]

\* C5: an agent built from a tools list and one built from the same list
\* with Tool.from_function applied beforehand put the same tools array in the
\* request; Tools pass through construction unchanged, callables are
\* converted by from_function, and the order of the list is kept.
C5_RawAndWrappedAgree ==
    /\ Len(tools) = Len(toolsArg)
    /\ \A i \in 1..Len(toolsArg) :
          IF IsTool(toolsArg[i])
          THEN tools[i] = toolsArg[i]
          ELSE tools[i] = from_function(toolsArg[i])
    /\ request # Nothing =>
          LET twin == BuildRequest(<<>>, FALSE, CHOOSE m \in Messages : TRUE,
                                   system_prompt, post_init(PreWrapped(toolsArg)))
          IN /\ ("tools" \in DOMAIN request) = ("tools" \in DOMAIN twin)
             /\ "tools" \in DOMAIN request => request.tools = twin.tools

C5_Witness ==
    /\ nRuns > 0 /\ Len(toolsArg) = 2
    /\ ~IsTool(toolsArg[1]) /\ IsTool(toolsArg[2])
    /\ "tools" \in DOMAIN request /\ Len(request.tools) = 2
\* the declared parameters of the callable without the receiver, in order
Declared == SelectSeq(func.params, LAMBDA q : q.name # "self")

ParamNamesOf(ps) == [i \in 1..Len(ps) |-> ps[i].name]

\* C6: the derived schema's properties are keyed by exactly the declared
\* parameter names without the receiver, in declaration order; required
\* lists exactly the parameters without default, in declaration order; and
\* the required key is absent, not empty, when nothing is required.
C6_PropertiesAndRequired ==
    tool # NoTool =>
        LET expected == ParamNamesOf(SelectSeq(Declared,
                                               LAMBDA q : q.default = "empty"))
        IN /\ Keys(tool.parameters.properties) = ParamNamesOf(Declared)
           /\ expected = <<>> => "required" \notin DOMAIN tool.parameters
           /\ expected # <<>> =>
                 /\ "required" \in DOMAIN tool.parameters
                 /\ tool.parameters.required = expected

C6_Witness ==
    /\ tool # NoTool /\ Len(func.params) = 2
    /\ func.params[1].name = "self" /\ func.params[1].default = "empty"
    /\ func.params[2].default = "value"
    /\ Len(tool.parameters.properties) = 1
    /\ "required" \notin DOMAIN tool.parameters

JsonKinds == {"string", "integer", "number", "boolean", "array", "object"}

\* the kind the table of the specification gives to an annotation
KindOf(annotation) ==
    CASE annotation = "str" -> "string"
      [] annotation = "int" -> "integer"
      [] annotation = "float" -> "number"
      [] annotation = "bool" -> "boolean"
      [] annotation = "list" -> "array"
      [] annotation = "dict" -> "object"
      [] OTHER -> "string"

C8_RaisedAsToolError ==
    (/\ outcome # Nothing
     /\ tool.function # NoFunction
     /\ Binds(tool.function, outcome.kwargs)
     /\ "raises" \in DOMAIN outcome.behaviour) =>
        /\ "raised" \in DOMAIN outcome.result
        /\ IsInstance(outcome.result.raised, "ToolError")
        /\ "tool_name" \in DOMAIN outcome.result
        /\ outcome.result = ToolError(tool.name, outcome.behaviour.message)

HasGgtPrefix(key) ==
    /\ Len(key) >= 4
    /\ key[1] = "g" /\ key[2] = "g" /\ key[3] = "t" /\ key[4] = "_"

\* C9: Client(api_key) with a key that is None, empty or not starting with
\* ggt_ raises AuthenticationError with no HTTP client created and nothing
\* sent; with a key starting with ggt_ it succeeds and stores the key.
C9_KeyValidatedBeforeTransport ==
    result # Nothing =>
        IF keyArg = NoneStr \/ keyArg = <<>> \/ ~HasGgtPrefix(keyArg)
        THEN /\ "raised" \in DOMAIN result
             /\ result.raised = "AuthenticationError"
             /\ http_client = "none"
             /\ netCalls = 0
             /\ api_key = NoneStr
        ELSE /\ api_key = keyArg
             /\ http_client # "none"
             /\ transport = Nothing => result = [returned |-> "Client"]

C9_Witness ==
    /\ result # Nothing /\ "raised" \in DOMAIN result
    /\ Len(keyArg) = 5 /\ SubSeq(keyArg, 2, 5) = KeyPrefix
    /\ http_client = "none"

\* C10: a failed request reaches the caller as AuthenticationError for 401,
\* RateLimitError with a retry-after hint for 429, APIError with the status
\* code for any other non-2xx status, and APIError with code 0 when the
\* transport fails without a response.
C10_ErrorKindByOutcome ==
    transport # Nothing =>
        IF "error" \in DOMAIN transport
        THEN /\ "raised" \in DOMAIN result
             /\ result.raised = "APIError" /\ result.code = 0
        ELSE IF transport.status \div 100 = 2
        THEN "returned" \in DOMAIN result
        ELSE /\ "raised" \in DOMAIN result
             /\ IF transport.status = 401
                THEN result.raised = "AuthenticationError"
                ELSE IF transport.status = 429
                THEN /\ result.raised = "RateLimitError"
                     /\ "retry_after" \in DOMAIN result
                ELSE /\ result.raised = "APIError"
                     /\ result.code = transport.status
====
